---- MODULE Spec2Model ----
(***************************************************************************)
(* A model of the template function library of caddy-xtemplate             *)
(* (src/funcs.go) and of the automatic reload described in src/README.md.  *)
(*                                                                         *)
(* Three specifications share the variables:                               *)
(*   SpecTry     one call of funcTry on inputs drawn by InitTry;           *)
(*   SpecLib     one call of a library function on inputs drawn by InitLib;*)
(*   SpecReload  the reload supervisor.                                    *)
(*                                                                         *)
(* Go values are records [t |-> type name, v |-> value], both strings.     *)
(* A Go string is a sequence of tokens (words and the separator ":").      *)
(***************************************************************************)
EXTENDS Integers, Sequences, FiniteSets, TLC

VARIABLES
    pc,         \* "ready" before the call, "done" after it, "reload" in SpecReload
    tryIn,      \* funcTry's inputs: [fn, args]
    tryOut,     \* funcTry's outcome and what the callee saw
    call,       \* a library call: [op, a, b]
    ret,        \* its outcome
    blueMondayPolicies, \* the policy registry
    state,      \* reload supervisor state
    published,  \* the published template set generation
    candidate,  \* the generation being built
    source,     \* the template source tree
    dirty,      \* a change was seen and no rebuild has picked it up yet
    log,        \* build errors logged
    triggers,   \* number of source changes and forced reloads so far
    served      \* what the last request was rendered from

tryVars    == <<tryIn, tryOut>>
libVars    == <<call, ret, blueMondayPolicies>>
reloadVars == <<state, published, candidate, source, dirty, log, triggers, served>>
vars       == <<pc, tryVars, libVars, reloadVars>>

(***************************************************************************)
(* Bounds of the model                                                     *)
(***************************************************************************)
MaxParams == 2
MaxOuts == 3
MaxArgs == 3

(***************************************************************************)
(* Go values                                                               *)
(***************************************************************************)
GoVal(t, v) == [t |-> t, v |-> v]

\* The nil interface value (an `any` holding nothing).
Nil == GoVal("nil", "nil")

\* Types whose method set has Error() string.
ErrorImpls == {"error", "*MyErr", "*errors.errorString"}

InterfaceTypes == {"any", "error"}

\* reflect.Type.AssignableTo
AssignableTo(xt, targ) ==
    \/ xt = targ
    \/ targ = "any"
    \/ targ = "error" /\ xt \in ErrorImpls

\* reflect.New(T).Elem(): the zero value of T, of static type T.
Zero(t) ==
    CASE t = "int"    -> GoVal("int", "0")
      [] t = "string" -> GoVal("string", "")
      [] t = "[]int"  -> GoVal("[]int", "nil")
      [] OTHER        -> GoVal(t, "nil")

\* reflect.Value.Interface(): a value of interface type yields the dynamic
\* value it holds (the nil interface when it holds none); a value of concrete
\* type is boxed with its type, a nil pointer included.
Interface(x) ==
    IF x.t \in InterfaceTypes /\ x.v = "nil" THEN Nil ELSE x

(***************************************************************************)
(* funcTry                                                                 *)
(***************************************************************************)
NoFunc(kind) ==
    [kind |-> kind, isnil |-> FALSE, in |-> <<>>, variadic |-> FALSE, out |-> <<>>]

NumIn(fn) == Len(fn.in)
NumOut(fn) == Len(fn.out)

\* The checks before the call; <<>> is "no error".
ValidateNoLastCheck(fn) ==
    IF fn.kind = "nil" THEN <<"nil func">>
    ELSE IF fn.kind # "func" THEN <<"not a function">>
    ELSE IF NumOut(fn) # 1 /\ NumOut(fn) # 2
         THEN <<"cannot call func that has %d outputs", ToString(NumOut(fn))>>
    ELSE <<>>

Validate(fn) ==
    IF fn.kind = "nil" THEN <<"nil func">>
    ELSE IF fn.kind # "func" THEN <<"not a function">>
    ELSE IF NumOut(fn) # 1 /\ NumOut(fn) # 2
         THEN <<"cannot call func that has %d outputs", ToString(NumOut(fn))>>
    ELSE IF ~AssignableTo(fn.out[NumOut(fn)], "error")
         THEN <<"cannot call func whose last arg is not error">>
    ELSE <<>>

\* The loop over args: a nil argument becomes the zero value of the parameter
\* at its position; Type.In(i) panics when there is no such parameter.
ArgPanics(fn, args) ==
    \E i \in 1..Len(args) : args[i] = Nil /\ i > NumIn(fn)

ReflectArgsKeepNil(fn, args) == args

ReflectArgs(fn, args) ==
    [i \in 1..Len(args) |-> IF args[i] # Nil THEN args[i] ELSE Zero(fn.in[i])]

\* reflect.Value.call: the panic it raises before the function runs, or <<>>.
\* op is "Call" or "CallSlice".
CallPanic(fn, op, in) ==
    LET n == IF op = "Call" /\ fn.variadic THEN NumIn(fn) - 1 ELSE NumIn(fn)
    IN  IF fn.isnil THEN <<"reflect.Value.Call: call of nil function">>
        ELSE IF op = "CallSlice" /\ ~fn.variadic
             THEN <<"reflect: CallSlice of non-variadic function">>
        ELSE IF Len(in) < n
             THEN <<"reflect: " \o op \o " with too few input arguments">>
        ELSE IF (op = "CallSlice" \/ ~fn.variadic) /\ Len(in) > n
             THEN <<"reflect: " \o op \o " with too many input arguments">>
        ELSE IF \E i \in 1..Len(in) : in[i] = Nil
             THEN <<"reflect: " \o op \o " using zero Value argument">>
        ELSE IF \E i \in 1..n : ~AssignableTo(in[i].t, fn.in[i])
             THEN <<"reflect: " \o op \o " using value of another type">>
        ELSE IF \E i \in (n+1)..Len(in) : "[]" \o in[i].t # fn.in[NumIn(fn)]
             THEN <<"reflect: cannot use value as variadic element">>
        ELSE <<>>

\* Which reflective call funcTry makes.
CallOp(fn) == IF fn.variadic THEN "CallSlice" ELSE "Call"

\* The result built from the function's outputs.
WrapResultAlwaysValue(fn, outs) ==
    [Value |-> Interface(outs[1]),
     Error |-> IF Interface(outs[NumOut(fn)]) # Nil
               THEN Interface(outs[NumOut(fn)]) ELSE Nil]

WrapResult(fn, outs) ==
    [Value |-> IF NumOut(fn) > 1 THEN Interface(outs[1]) ELSE Nil,
     Error |-> IF Interface(outs[NumOut(fn)]) # Nil
               THEN Interface(outs[NumOut(fn)]) ELSE Nil]

\* result.OK
OK(r) == r.Error = Nil

\* What a function of the given output types may return.
OutValues(t) ==
    CASE t = "int"   -> {GoVal("int", "7")}
      [] t = "error" -> {GoVal("error", "nil"), GoVal("*errors.errorString", "boom")}
      [] t = "*MyErr" -> {GoVal("*MyErr", "nilptr"), GoVal("*MyErr", "p1")}
      [] OTHER -> {GoVal(t, "nil")}

CalleeReturns(out) ==
    {s \in [1..Len(out) -> UNION {OutValues(out[i]) : i \in 1..Len(out)}] :
        \A i \in 1..Len(out) : s[i] \in OutValues(out[i])}

NotCalled == [invoked |-> FALSE, invokedArgs |-> <<>>, outs |-> <<>>]

TryError(msg) ==
    [status |-> "error", res |-> <<>>, err |-> msg] @@ NotCalled

TryPanic(msg) ==
    [status |-> "panic", res |-> <<>>, err |-> msg] @@ NotCalled

\* One call of funcTry(fn, args...).
funcTry ==
    /\ pc = "ready"
    /\ tryIn.fn.kind # "none"
    /\ LET fn == tryIn.fn
           args == tryIn.args
       IN  IF Validate(fn) # <<>> THEN tryOut' = TryError(Validate(fn))
           ELSE IF ArgPanics(fn, args)
                THEN tryOut' = TryPanic(<<"reflect: Func index out of bounds">>)
           ELSE IF CallPanic(fn, CallOp(fn), ReflectArgs(fn, args)) # <<>>
                THEN tryOut' = TryPanic(CallPanic(fn, CallOp(fn), ReflectArgs(fn, args)))
           ELSE \E outs \in CalleeReturns(fn.out) :
                    tryOut' = [status |-> "ok",
                               res |-> <<WrapResult(fn, outs)>>,
                               err |-> <<>>,
                               invoked |-> TRUE,
                               invokedArgs |-> ReflectArgs(fn, args),
                               outs |-> outs]
    /\ pc' = "done"
    /\ UNCHANGED <<tryIn, libVars, reloadVars>>

\* The inputs of funcTry the model draws.
ParamTypes == {"int", "any"}
VariadicParam == "[]int"

SeqsUpTo(S, n) == UNION {[1..k -> S] : k \in 0..n}

InSigs ==
    {[in |-> s, variadic |-> FALSE] : s \in SeqsUpTo(ParamTypes, MaxParams)}
    \cup {[in |-> Append(s, VariadicParam), variadic |-> TRUE] :
            s \in SeqsUpTo(ParamTypes, MaxParams - 1)}

\* Output lists: value outputs, then a last output of any of the three types.
LastOutTypes == {"int", "error", "*MyErr"}

OutSigs ==
    {<<>>} \cup
    {[i \in 1..k |-> IF i < k THEN "int" ELSE t] : k \in 1..MaxOuts, t \in LastOutTypes}

Funcs ==
    {[kind |-> "func", isnil |-> z, in |-> sig.in, variadic |-> sig.variadic, out |-> o] :
        z \in BOOLEAN, sig \in InSigs, o \in OutSigs}

TryFns == {NoFunc("nil"), NoFunc("int"), NoFunc("string")} \cup Funcs

ArgValues == {Nil, GoVal("int", "1"), GoVal("string", "a"), GoVal("[]int", "s1")}

TryArgs == SeqsUpTo(ArgValues, MaxArgs)

TryIdleIn == [fn |-> NoFunc("none"), args |-> <<>>]
TryIdleOut == [status |-> "none", res |-> <<>>, err |-> <<>>] @@ NotCalled

(***************************************************************************)
(* Strings as token sequences                                              *)
(***************************************************************************)
HasSep(s) == \E i \in 1..Len(s) : s[i] = ":"

FirstSep(s) == CHOOSE i \in 1..Len(s) : s[i] = ":" /\ \A j \in 1..(i-1) : s[j] # ":"

\* strings.Split(s, ":")
RECURSIVE Split(_)
Split(s) ==
    IF ~HasSep(s) THEN <<s>>
    ELSE <<SubSeq(s, 1, FirstSep(s) - 1)>> \o Split(SubSeq(s, FirstSep(s) + 1, Len(s)))

(***************************************************************************)
(* funcSanitizeHtml                                                        *)
(***************************************************************************)
PolicyRegistry ==
    [strict |-> "StrictPolicy",
     ugc |-> "UGCPolicy",
     externalugc |-> "UGCPolicy+TargetBlank-RelativeURLs"]

\* What a policy makes of one piece of markup; <<>> drops it.
SanitizeToken(policy, tok) ==
    CASE tok = "text" -> <<"text">>
      [] tok = "<script>" -> <<>>
      [] policy = "StrictPolicy" -> <<>>
      [] tok = "<b>" -> <<"<b>">>
      [] tok = "<a rel>" ->
            IF policy = "UGCPolicy" THEN <<"<a rel nofollow>">> ELSE <<>>
      [] tok = "<a abs>" ->
            IF policy = "UGCPolicy" THEN <<"<a abs nofollow>">>
            ELSE <<"<a abs nofollow noopener target=_blank>">>
      [] OTHER -> <<>>

\* Policy.Sanitize
RECURSIVE Sanitize(_, _)
Sanitize(policy, html) ==
    IF html = <<>> THEN <<>>
    ELSE SanitizeToken(policy, Head(html)) \o Sanitize(policy, Tail(html))

LibOk(type, val) == [status |-> "ok", type |-> type, val |-> val, err |-> <<>>]
LibError(type, val, err) == [status |-> "error", type |-> type, val |-> val, err |-> err]
LibPanic(msg) == [status |-> "panic", type |-> "", val |-> <<>>, err |-> msg]

SanitizeHtmlAnyPolicy(registry, policyName, html) ==
    IF policyName \notin DOMAIN registry
    THEN LibOk("template.HTML", Sanitize("UGCPolicy", html))
    ELSE LibOk("template.HTML", Sanitize(registry[policyName], html))

SanitizeHtml(registry, policyName, html) ==
    IF policyName \notin DOMAIN registry
    THEN LibError("template.HTML", <<>>, <<"failed to find policy name '%s'", policyName>>)
    ELSE LibOk("template.HTML", Sanitize(registry[policyName], html))

funcSanitizeHtml ==
    /\ pc = "ready"
    /\ call.op = "sanitizeHtml"
    /\ ret' = SanitizeHtml(blueMondayPolicies, call.a, call.b)
    /\ pc' = "done"
    /\ UNCHANGED <<call, blueMondayPolicies, tryVars, reloadVars>>

(***************************************************************************)
(* funcMarkdown, funcTrustHtml                                             *)
(***************************************************************************)
\* goldmark's Convert with raw HTML passed through (WithUnsafe).
ConvertToken(tok) ==
    CASE tok = "# h" -> "<h1 id=h>h</h1>"
      [] tok = "text" -> "<p>text</p>"
      [] OTHER -> tok

Convert(md) == [i \in 1..Len(md) |-> ConvertToken(md[i])]

Markdown(input, convertErr) ==
    IF convertErr THEN LibError("string", <<>>, <<"convert">>)
    ELSE LibOk("string", Convert(input))

funcMarkdown ==
    /\ pc = "ready"
    /\ call.op = "markdown"
    /\ ret' = Markdown(call.a, call.b)
    /\ pc' = "done"
    /\ UNCHANGED <<call, blueMondayPolicies, tryVars, reloadVars>>

TrustHtml(s) == LibOk("template.HTML", s)

funcTrustHtml ==
    /\ pc = "ready"
    /\ call.op = "trustHtml"
    /\ ret' = TrustHtml(call.a)
    /\ pc' = "done"
    /\ UNCHANGED <<call, blueMondayPolicies, tryVars, reloadVars>>

(***************************************************************************)
(* funcHumanize                                                            *)
(***************************************************************************)
\* time.RFC1123Z as layout tokens: a reference-time element, a literal
\* separator, a reference-time element.
RFC1123Z == <<"2006", ":", "2006">>

\* strconv.ParseUint(data, 10, 64) succeeds: digits only, at least one.
ParseUintOK(data) == data # <<>> /\ \A i \in 1..Len(data) : data[i] = "7"

\* time.Parse(layout, data) succeeds: a reference-time element of the layout
\* takes a number, any other text of the layout must be matched verbatim, and
\* no text may be left over.
TimeParseOK(layout, data) ==
    /\ Len(layout) = Len(data)
    /\ \A i \in 1..Len(layout) :
          IF layout[i] = "2006" THEN data[i] = "7" ELSE data[i] = layout[i]

\* The layout funcHumanize parses a time with.
TimeLayoutDefaultOnly(formatType) == RFC1123Z

TimeLayout(formatType) ==
    IF Len(Split(formatType)) > 1
    THEN SubSeq(formatType, Len(Split(formatType)[1]) + 2, Len(formatType))
    ELSE RFC1123Z

Humanize(formatType, data) ==
    LET parts == Split(formatType)
    IN  IF parts[1] = <<"size">>
        THEN IF ~ParseUintOK(data)
             THEN LibError("string", <<>>, <<"humanize: size cannot be parsed", data>>)
             ELSE LibOk("string", <<"humanize.Bytes", data>>)
        ELSE IF parts[1] = <<"time">>
        THEN IF ~TimeParseOK(TimeLayout(formatType), data)
             THEN LibError("string", <<>>, <<"humanize: time cannot be parsed", data>>)
             ELSE LibOk("string", <<"humanize.Time", data>>)
        ELSE LibError("string", <<>>, <<"no know function was given">>)

funcHumanize ==
    /\ pc = "ready"
    /\ call.op = "humanize"
    /\ ret' = Humanize(call.a, call.b)
    /\ pc' = "done"
    /\ UNCHANGED <<call, blueMondayPolicies, tryVars, reloadVars>>

(***************************************************************************)
(* funcIdx                                                                 *)
(***************************************************************************)
\* The kinds reflect.Value.Index accepts.
IndexableKinds == {"array", "slice", "string"}

IdxOneBased(idx, arr) ==
    IF arr.kind \notin IndexableKinds
    THEN LibPanic(<<"reflect: call of reflect.Value.Index on " \o arr.kind \o " Value">>)
    ELSE IF idx < 1 \/ idx > Len(arr.elems)
    THEN LibPanic(<<"reflect: " \o arr.kind \o " index out of range">>)
    ELSE LibOk("any", arr.elems[idx])

\* reflect.ValueOf(arr).Index(idx).Interface(); Go counts positions from 0.
Idx(idx, arr) ==
    IF arr.kind \notin IndexableKinds
    THEN LibPanic(<<"reflect: call of reflect.Value.Index on " \o arr.kind \o " Value">>)
    ELSE IF idx < 0 \/ idx >= Len(arr.elems)
    THEN LibPanic(<<"reflect: " \o arr.kind \o " index out of range">>)
    ELSE LibOk("any", arr.elems[idx + 1])

funcIdx ==
    /\ pc = "ready"
    /\ call.op = "idx"
    /\ ret' = Idx(call.a, call.b)
    /\ pc' = "done"
    /\ UNCHANGED <<call, blueMondayPolicies, tryVars, reloadVars>>

(***************************************************************************)
(* The inputs of the library calls the model draws                         *)
(***************************************************************************)
MaxHtmlLen == 2
MaxFmtLen == 3
MaxDataLen == 3
MaxSeqLen == 2

PolicyNames == {"strict", "ugc", "externalugc", "bogus", ""}
HtmlTokens == {"text", "<b>", "<script>", "<a rel>", "<a abs>"}
MdTokens == {"# h", "text", "<script>"}
FmtTokens == {"size", "time", ":", "2006", "x"}
DataTokens == {"7", ":", "x"}
ElemValues == {"a", "b"}
ArrKinds == IndexableKinds \cup {"map", "int", "ptr", "zero"}

LibCall(op, a, b) == [op |-> op, a |-> a, b |-> b]

\* call is one of the library calls the model draws.
IsLibCall(c) ==
    \/ \E n \in PolicyNames, h \in SeqsUpTo(HtmlTokens, MaxHtmlLen) :
          c = LibCall("sanitizeHtml", n, h)
    \/ \E m \in SeqsUpTo(MdTokens, MaxHtmlLen), e \in BOOLEAN :
          c = LibCall("markdown", m, e)
    \/ \E h \in SeqsUpTo(HtmlTokens, MaxHtmlLen) :
          c = LibCall("trustHtml", h, <<>>)
    \/ \E f \in SeqsUpTo(FmtTokens, MaxFmtLen), d \in SeqsUpTo(DataTokens, MaxDataLen) :
          c = LibCall("humanize", f, d)
    \/ \E i \in (-1)..(MaxSeqLen + 1), k \in ArrKinds, e \in SeqsUpTo(ElemValues, MaxSeqLen) :
          c = LibCall("idx", i, [kind |-> k, elems |-> e])

LibIdleCall == LibCall("none", <<>>, <<>>)
NoRet == [status |-> "none", type |-> "", val |-> <<>>, err |-> <<>>]

(***************************************************************************)
(* Automatic reload: the supervisor of the published template set          *)
(***************************************************************************)
MaxTriggers == 3

States == {"Idle", "Building", "Validating", "Publishing", "Failed"}

\* A source tree: its version, whether every template parses, and whether
\* its routes are free of duplicates.
Tree(ver, syntaxOK, routesOK) == [ver |-> ver, syntaxOK |-> syntaxOK, routesOK |-> routesOK]

\* The compiler parses every file of the snapshot: all or nothing.
CompileAlwaysSucceeds(tree) == TRUE

CompileSucceeds(tree) == tree.syntaxOK

\* The route table of the snapshot has no duplicate (method, pattern).
RoutesValid(tree) == tree.routesOK

\* The generation that replaces pub when the build of tree is published.
Swap(pub, tree) == [gen |-> pub.gen + 1, tree |-> tree]

\* The log entry of a failed build: the offending snapshot and the stage.
BuildError(tree) ==
    [ver |-> tree.ver, stage |-> IF tree.syntaxOK THEN "routes" ELSE "parse"]

SourceChange ==
    /\ triggers < MaxTriggers
    /\ \E syntaxOK \in BOOLEAN, routesOK \in BOOLEAN :
          source' = Tree(source.ver + 1, syntaxOK, routesOK)
    /\ dirty' = TRUE
    /\ triggers' = triggers + 1
    /\ UNCHANGED <<pc, state, published, candidate, log, served, tryVars, libVars>>

ForceReload ==
    /\ triggers < MaxTriggers
    /\ dirty' = TRUE
    /\ triggers' = triggers + 1
    /\ UNCHANGED <<pc, state, published, candidate, source, log, served, tryVars, libVars>>

StartBuild ==
    /\ state = "Idle"
    /\ dirty
    /\ state' = "Building"
    /\ dirty' = FALSE
    /\ candidate' = source
    /\ UNCHANGED <<pc, published, source, log, triggers, served, tryVars, libVars>>

BuildDone ==
    /\ state = "Building"
    /\ state' = IF CompileSucceeds(candidate) THEN "Validating" ELSE "Failed"
    /\ UNCHANGED <<pc, published, candidate, source, dirty, log, triggers, served,
                   tryVars, libVars>>

ValidateDone ==
    /\ state = "Validating"
    /\ state' = IF RoutesValid(candidate) THEN "Publishing" ELSE "Failed"
    /\ UNCHANGED <<pc, published, candidate, source, dirty, log, triggers, served,
                   tryVars, libVars>>

Publish ==
    /\ state = "Publishing"
    /\ published' = Swap(published, candidate)
    /\ state' = "Idle"
    /\ UNCHANGED <<pc, candidate, source, dirty, log, triggers, served, tryVars, libVars>>

Recover ==
    /\ state = "Failed"
    /\ log' = Append(log, BuildError(candidate))
    /\ state' = "Idle"
    /\ UNCHANGED <<pc, published, candidate, source, dirty, triggers, served,
                   tryVars, libVars>>

\* A request renders from the generation published when it starts.
Request ==
    /\ served' = published
    /\ UNCHANGED <<pc, state, published, candidate, source, dirty, log, triggers,
                   tryVars, libVars>>

(***************************************************************************)
(* Specifications                                                          *)
(***************************************************************************)
FirstTree == Tree(0, TRUE, TRUE)
FirstGeneration == [gen |-> 1, tree |-> FirstTree]

InitReloadVars ==
    /\ state = "Idle"
    /\ published = FirstGeneration
    /\ candidate = FirstTree
    /\ source = FirstTree
    /\ dirty = FALSE
    /\ log = <<>>
    /\ triggers = 0
    /\ served = FirstGeneration

InitTry ==
    /\ pc = "ready"
    /\ \E f \in TryFns, a \in TryArgs : tryIn = [fn |-> f, args |-> a]
    /\ tryOut = TryIdleOut
    /\ call = LibIdleCall
    /\ ret = NoRet
    /\ blueMondayPolicies = PolicyRegistry
    /\ InitReloadVars

NextTry == funcTry

SpecTry == InitTry /\ [][NextTry]_vars

InitLib ==
    /\ pc = "ready"
    /\ tryIn = TryIdleIn
    /\ tryOut = TryIdleOut
    /\ IsLibCall(call)
    /\ ret = NoRet
    /\ blueMondayPolicies = PolicyRegistry
    /\ InitReloadVars

NextLib ==
    \/ funcSanitizeHtml
    \/ funcMarkdown
    \/ funcTrustHtml
    \/ funcHumanize
    \/ funcIdx

SpecLib == InitLib /\ [][NextLib]_vars

InitReload ==
    /\ pc = "reload"
    /\ tryIn = TryIdleIn
    /\ tryOut = TryIdleOut
    /\ call = LibIdleCall
    /\ ret = NoRet
    /\ blueMondayPolicies = PolicyRegistry
    /\ InitReloadVars

Supervisor == StartBuild \/ BuildDone \/ ValidateDone \/ Publish \/ Recover

NextReload ==
    \/ SourceChange
    \/ ForceReload
    \/ StartBuild
    \/ BuildDone
    \/ ValidateDone
    \/ Publish
    \/ Recover
    \/ Request

\* The supervisor is a background task of its own: a step it can take, it takes.
SpecReload == InitReload /\ [][NextReload]_vars /\ WF_vars(Supervisor)

(***************************************************************************)
(* Properties of funcTry (checked under SpecTry)                           *)
(***************************************************************************)
TryDone == pc = "done" /\ tryIn.fn.kind # "none"

\* fn is nil, not a function, has 0 or 3+ outputs, or a last output without
\* the error capability.
BadFn(fn) ==
    \/ fn.kind # "func"
    \/ NumOut(fn) = 0
    \/ NumOut(fn) >= 3
    \/ fn.out[NumOut(fn)] \notin ErrorImpls

\* As the function's own source would test its output against nil.
ReturnedNil(x) == x.v \in {"nil", "nilptr"}

\* C1: funcTry on a nil or non-function fn, on a function with 0 or 3+
\* outputs, or on one whose last output is not error-typed returns a nil
\* result with a non-nil error, and fn is never invoked.
C1_BadFnRejected ==
    TryDone /\ BadFn(tryIn.fn) =>
        /\ tryOut.status = "error"
        /\ tryOut.res = <<>>
        /\ tryOut.err # <<>>
        /\ ~tryOut.invoked

C1_Witness ==
    /\ TryDone
    /\ tryIn.fn.kind = "func"
    /\ NumOut(tryIn.fn) = 2
    /\ tryIn.fn.out[2] = "int"
    /\ Len(tryIn.args) = NumIn(tryIn.fn)
    /\ tryOut.err = <<"cannot call func whose last arg is not error">>

\* C2 (as claimed): for every accepted two-output function, a return of
\* (value, nil) gives a result with that value, a nil Error and OK() true; a
\* return of (nil, err) gives OK() false and Error the same err; funcTry's own
\* error is nil in both cases.
C2_TwoOutputResult ==
    TryDone /\ tryOut.invoked /\ NumOut(tryIn.fn) = 2 =>
        /\ tryOut.err = <<>>
        /\ Len(tryOut.res) = 1
        /\ IF ReturnedNil(tryOut.outs[2])
           THEN /\ tryOut.res[1].Value = tryOut.outs[1]
                /\ tryOut.res[1].Error = Nil
                /\ OK(tryOut.res[1])
           ELSE /\ ~OK(tryOut.res[1])
                /\ tryOut.res[1].Error = tryOut.outs[2]

\* The arguments given are each nil or assignable to their parameter.
GivenArgsFit(fn, args) ==
    \A i \in 1..Len(args) :
        i <= NumIn(fn) /\ (args[i] = Nil \/ AssignableTo(args[i].t, fn.in[i]))

\* C3 (as claimed): called with fewer arguments than fn has parameters,
\* funcTry fills the missing trailing arguments with zero values and invokes
\* fn with a full argument list.
C3_MissingArgsFilled ==
    TryDone /\ Validate(tryIn.fn) = <<>> /\ ~tryIn.fn.isnil
            /\ Len(tryIn.args) < NumIn(tryIn.fn)
            /\ GivenArgsFit(tryIn.fn, tryIn.args) =>
        /\ tryOut.invoked
        /\ Len(tryOut.invokedArgs) = NumIn(tryIn.fn)
        /\ \A i \in (Len(tryIn.args) + 1)..NumIn(tryIn.fn) :
              tryOut.invokedArgs[i] = Zero(tryIn.fn.in[i])

\* C3 (amended): an argument given as nil is replaced by the zero value of
\* the parameter at its position, and fn is invoked with the arguments so
\* completed when they number exactly fn's parameters and fit them; missing
\* arguments are never filled in: with fewer arguments than parameters
\* funcTry panics without invoking fn.
C3_NilArgsZeroedMissingPanics ==
    TryDone /\ Validate(tryIn.fn) = <<>> /\ ~tryIn.fn.isnil =>
        /\ Len(tryIn.args) < NumIn(tryIn.fn) =>
              tryOut.status = "panic" /\ ~tryOut.invoked
        /\ Len(tryIn.args) = NumIn(tryIn.fn) /\ GivenArgsFit(tryIn.fn, tryIn.args) =>
              /\ tryOut.invoked
              /\ tryOut.invokedArgs =
                    [i \in 1..Len(tryIn.args) |->
                        IF tryIn.args[i] = Nil THEN Zero(tryIn.fn.in[i]) ELSE tryIn.args[i]]

C3_Witness ==
    /\ TryDone
    /\ Validate(tryIn.fn) = <<>>
    /\ ~tryIn.fn.isnil
    /\ ~tryIn.fn.variadic
    /\ NumIn(tryIn.fn) = 2
    /\ tryIn.args = <<Nil>>
    /\ tryOut.status = "panic"
    /\ tryOut.err = <<"reflect: Call with too few input arguments">>

\* The fixed parameters are given, and the variadic arguments one by one.
GivenIndividually(fn, args) ==
    /\ Len(args) >= NumIn(fn) - 1
    /\ \A i \in 1..(NumIn(fn) - 1) : args[i] # Nil /\ AssignableTo(args[i].t, fn.in[i])
    /\ \A i \in NumIn(fn)..Len(args) : args[i] # Nil /\ "[]" \o args[i].t = fn.in[NumIn(fn)]

\* C4 (as claimed): for a variadic fn that passes validation, funcTry with the
\* variadic arguments given individually (zero, one or several) invokes fn
\* and returns a wrapped result; the invocation does not crash.
C4_VariadicIndividually ==
    TryDone /\ Validate(tryIn.fn) = <<>> /\ ~tryIn.fn.isnil /\ tryIn.fn.variadic
            /\ GivenIndividually(tryIn.fn, tryIn.args) =>
        /\ tryOut.status = "ok"
        /\ tryOut.invoked
        /\ Len(tryOut.res) = 1

\* C5: for every accepted one-output function the result's Value is unset
\* (nil, no zero value of any type) and its Error is the function's output;
\* the value output is captured only when the function has two outputs.
C5_OneOutputValueUnset ==
    TryDone /\ tryOut.invoked =>
        /\ NumOut(tryIn.fn) = 1 =>
              /\ tryOut.res[1].Value = Nil
              /\ tryOut.res[1].Error = Interface(tryOut.outs[1])
        /\ NumOut(tryIn.fn) = 2 =>
              tryOut.res[1].Value = Interface(tryOut.outs[1])

C5_Witness ==
    /\ TryDone
    /\ tryOut.invoked
    /\ NumOut(tryIn.fn) = 1
    /\ tryOut.outs[1] = GoVal("*errors.errorString", "boom")
    /\ tryOut.res[1].Error = GoVal("*errors.errorString", "boom")

(***************************************************************************)
(* Properties of the library functions (checked under SpecLib)             *)
(***************************************************************************)
LibDone(op) == pc = "done" /\ call.op = op

RegisteredPolicies == {"strict", "ugc", "externalugc"}

\* C6: funcSanitizeHtml looks the name up in a fixed registry nothing
\* mutates; an unknown name gives an empty output and an error naming the
\* policy, a registered name the policy-sanitized markup as trusted HTML with
\* a nil error.
C6_SanitizeHtmlRegistry ==
    /\ blueMondayPolicies = PolicyRegistry
    /\ LibDone("sanitizeHtml") =>
          IF call.a \notin RegisteredPolicies
          THEN /\ ret.status = "error"
               /\ ret.val = <<>>
               /\ Len(ret.err) = 2
               /\ ret.err[2] = call.a
          ELSE /\ ret.status = "ok"
               /\ ret.err = <<>>
               /\ ret.type = "template.HTML"
               /\ ret.val = Sanitize(PolicyRegistry[call.a], call.b)
               /\ \A i \in 1..Len(ret.val) : ret.val[i] # "<script>"

C6_Witness ==
    /\ LibDone("sanitizeHtml")
    /\ call.a = "bogus"
    /\ call.b = <<"<script>", "<b>">>
    /\ ret.status = "error"
    /\ ret.err = <<"failed to find policy name '%s'", "bogus">>

\* formatSpec is `size`, or `time`, or `time:` followed by a layout.
SizeOrTimeSpec(f) ==
    \/ f = <<"size">>
    \/ f = <<"time">>
    \/ Len(f) >= 2 /\ f[1] = "time" /\ f[2] = ":"

\* The layout a `time[:layout]` formatSpec names.
NamedLayout(f) == IF Len(f) >= 2 THEN SubSeq(f, 3, Len(f)) ELSE RFC1123Z

\* C7 (as claimed): funcHumanize returns an empty string and an error for
\* every formatSpec other than `size` or `time[:layout]` and for every data
\* that fails to parse, and a nil error only in the remaining cases.
C7_ErrorUnlessSizeOrTime ==
    LibDone("humanize") =>
        /\ ret.status \in {"ok", "error"}
        /\ ret.status = "error" => ret.val = <<>> /\ ret.err # <<>>
        /\ ret.status = "ok" <=>
              /\ SizeOrTimeSpec(call.a)
              /\ IF call.a[1] = "size" THEN ParseUintOK(call.b)
                 ELSE TimeParseOK(NamedLayout(call.a), call.b)

\* The text of f before its first colon.
BeforeColon(f) ==
    IF \E i \in 1..Len(f) : f[i] = ":"
    THEN SubSeq(f, 1, (CHOOSE i \in 1..Len(f) :
                          f[i] = ":" /\ \A j \in 1..(i - 1) : f[j] # ":") - 1)
    ELSE f

\* C7 (amended): funcHumanize returns an empty string and an error for every
\* formatSpec whose text before the first colon is neither `size` nor `time`
\* (`size:` followed by anything is taken as `size`) and for every data that
\* fails to parse (size: not an unsigned integer; time: not matching the
\* layout after the first colon, or the default layout when there is no
\* colon), and a nil error only in the remaining cases.
C7_ErrorUnlessSizeOrTimePrefix ==
    LibDone("humanize") =>
        /\ ret.status \in {"ok", "error"}
        /\ ret.status = "error" => ret.val = <<>> /\ ret.err # <<>>
        /\ ret.status = "ok" <=>
              \/ BeforeColon(call.a) = <<"size">> /\ ParseUintOK(call.b)
              \/ /\ BeforeColon(call.a) = <<"time">>
                 /\ TimeParseOK(NamedLayout(call.a), call.b)

C7_Witness ==
    /\ LibDone("humanize")
    /\ call.a = <<"size", ":", "x">>
    /\ call.b = <<"7", "7">>
    /\ ret.status = "ok"
    /\ ret.err = <<>>

\* C8: funcIdx(i, seq) returns the element of seq at position i when seq is
\* indexable and 0 <= i < length, and fails, producing no value, whenever i is
\* out of range or seq is not indexable.
C8_IdxInRangeOrFails ==
    LibDone("idx") =>
        IF call.b.kind \in {"array", "slice", "string"}
           /\ 0 <= call.a /\ call.a < Len(call.b.elems)
        THEN ret.status = "ok" /\ ret.val = call.b.elems[call.a + 1]
        ELSE ret.status = "panic" /\ ret.val = <<>>

C8_Witness ==
    /\ LibDone("idx")
    /\ call.b = [kind |-> "slice", elems |-> <<"a", "b">>]
    /\ call.a = 2
    /\ ret.status = "panic"

\* C9 (as claimed): on success funcMarkdown returns its rendered HTML tagged
\* as trusted markup, the classification sanitizeHtml and trustHtml produce.
C9_MarkdownTrusted ==
    LibDone("markdown") /\ ret.status = "ok" =>
        /\ ret.type = "template.HTML"
        /\ ret.type = TrustHtml(call.a).type

(***************************************************************************)
(* Properties of the reload supervisor (checked under SpecReload)          *)
(***************************************************************************)
FullyBuilt(gen) == gen.tree.syntaxOK /\ gen.tree.routesOK

ReloadStepOK ==
    /\ published' # published =>
          /\ state = "Publishing"
          /\ candidate.syntaxOK /\ candidate.routesOK
          /\ published'.tree = candidate
          /\ published'.gen = published.gen + 1
    /\ state = "Failed" \/ state' = "Failed" => published' = published
    /\ state # "Failed" /\ state' = "Failed" =>
          ~(candidate.syntaxOK /\ candidate.routesOK)
    /\ state = "Failed" /\ state' # "Failed" =>
          /\ state' = "Idle"
          /\ Len(log') = Len(log) + 1
          /\ log'[Len(log')].ver = candidate.ver
    /\ served' # served => served' = published

\* C10: a reload whose build fails leaves the published generation unchanged
\* and serving, logs the error and returns the supervisor to Idle; the
\* published generation is only ever replaced by a fully and successfully
\* built one.
C10_FailedReloadKeepsPublished ==
    /\ [][ReloadStepOK]_vars
    /\ [](FullyBuilt(published) /\ FullyBuilt(served))
    /\ (state = "Failed" ~> state = "Idle")

C10_Witness ==
    /\ state = "Idle"
    /\ published.gen = 2
    /\ published.tree.ver = 1
    /\ source.ver = 2
    /\ ~source.syntaxOK
    /\ ~dirty
    /\ Len(log) = 1
    /\ log[1] = [ver |-> 2, stage |-> "parse"]
    /\ served = published

====
